---- MODULE Spec2Model ----
(***************************************************************************)
(* The periodic task scheduling core of conky: the registry of thread      *)
(* objects (thread_container, src/thread.cc), the per-object worker thread *)
(* (thread_base::run / start_routine / stop) and the identity of a work    *)
(* item (hash, typeid, key tuple; src/thread.hh).                          *)
(*                                                                         *)
(* One coordinating thread (conky's main loop) calls register_thread,      *)
(* releases handles and calls run_all_threads; every spawned worker runs   *)
(* start_routine concurrently with it.                                     *)
(***************************************************************************)
EXTENDS Integers, Sequences, FiniteSets, TLC

\* ----- bounds of the model
MaxObjs == 2
MaxPeriod == 2
MaxRefs == 2
MaxSem == 1
MaxPipe == 2
MaxTasks == 3
MaxPool == 2
MaxKey == 3
MaxData == 1

\* ----- program constants
UNUSED_MAX == 5
\* remaining is a uint32_t: 0 - 1 wraps to 2^32-1.  TLC's integers end at
\* 2^31-1, which stands for the wrapped value here; it is only ever compared
\* with 0 and with periods <= MaxPeriod, and those comparisons come out as
\* they do for 2^32-1.
UINT32_MAX == 2147483647
HASH_MULT == 47

Objs == 1..MaxObjs
Periods == 1..MaxPeriod

\* Concrete classes of work items.  "callback" derives from key_mergable and
\* inherits task_base::get_hash; "curl" and "hddtemp" hand priv::hash of
\* their key tuple to the thread_base constructor as hash_.
Types == {"callback", "curl", "hddtemp"}
KeyHashed == {"curl", "hddtemp"}

\* Key tuples (std::tuple<Keys...>), here two integer fields.
Keys == {<<0, 1>>, <<1, 0>>}

\* The output methods, registered with output_methods.register_thread:
\* x11_output and text_output.  They derive from output_method, which hands
\* its own address to thread_base as hash_ and false as wait_.  x11_output
\* asks for the signalling pipe (use_pipe) and its work() is an event loop
\* that returns only when is_done().
Outputs == {"x11", "text"}
Piped == {"x11"}
EventLoop == {"x11"}

VARIABLES
    item,       \* item[o]: the fields of the thread_base object at address o
    alive,      \* addresses of the objects that are constructed and not destroyed
    threads,    \* thread_container::threads, the registered handles
    refs,       \* refs[o]: handles to o held outside the container
    sem_wait,   \* thread_container::sem_wait
    cpc,        \* the coordinating thread: "idle", or "loop" inside run_all_threads
    visited,    \* handles the loop of run_all_threads has passed
    wait,       \* the local counter wait of run_all_threads
    victim,     \* object whose stop() the coordinating thread is blocked in (0: none)
    aborted,    \* assert() of merge has failed
    trig,       \* objects triggered by the current / latest run_all_threads call
    calls,      \* calls[o]: run_all_threads calls that passed o since it lost its last holder
    revived,    \* objects that were passed without a holder and then registered again,
                \* until the next run_all_threads call returns
    phase,      \* phase[o]: run_all_threads calls that passed o since its countdown was
                \* last set up by a registration, counted modulo its period
    nthreads,   \* threads of the process that were started and not yet joined
    nfds,       \* pipe descriptors of the process that are open
    pool,       \* the priv::task_pool of a task_container
    tasks,      \* the coordinating thread inside task_container::run_all_tasks
    thrown,     \* the exception the latest register_thread call ended with, or "none"
    list_map    \* a list_map<Key, Data>: its elements, and the latest call made on it

vars == <<item, alive, threads, refs, sem_wait, cpc, visited, wait, victim,
          aborted, trig, calls, revived, phase, nthreads, nfds, pool, tasks,
          thrown, list_map>>

\* ----- pure functions ---------------------------------------------------

std_hash(x) == x

RECURSIVE hash(_)
hash(tuple) ==
    IF Len(tuple) = 1 THEN std_hash(Head(tuple))
    ELSE std_hash(Head(tuple)) + HASH_MULT * hash(Tail(tuple))

get_hash(type, key, this) ==
    IF type \in KeyHashed THEN hash(key) ELSE this

\* pipe2(): the descriptors it opens, as <<read end open, write end open>>.
pipe2 == <<TRUE, TRUE>>

\* get_signal() that knows 'X' only.
get_signal_without_T(s) ==
    CASE s = "X" -> "DONE"
      [] OTHER -> "logic_error"

\* get_signal(): the switch over the byte read from signalfd().
get_signal(s) ==
    CASE s = "X" -> "DONE"
      [] s = "T" -> "NEXT"
      [] OTHER -> "logic_error"

\* The object after the constructor.  buf is the number of bytes in the
\* pipe and pipe the bytes themselves, oldest first, sig what the latest
\* get_signal() call of the object returned, sentX whether stop() has
\* written its 'X', nonblock the O_NONBLOCK flag of the write end, display
\* whether the object is an x11_output that holds its X display connection
\* and the window, buffer and font objects made on it; thr holds the position of every thread started for
\* the object, owed the number of times run() was called for the object
\* since its latest execution of work() began (counted up to MaxSem + 1),
\* stops the number of stop() calls that found the object without thread
\* and with both descriptors closed (counted up to 2).
thread_base(type, key, hash_, period_, wait_, use_pipe) ==
    [type |-> type, key |-> key, hash |-> hash_, period |-> period_,
     remaining |-> 0, wait |-> wait_, done |-> FALSE, unused |-> 0,
     thread |-> FALSE, sem_start |-> 0, thr |-> <<>>,
     pipefd |-> IF use_pipe THEN pipe2 ELSE <<FALSE, FALSE>>,
     nonblock |-> FALSE, buf |-> 0, sentX |-> FALSE, owed |-> 0,
     stops |-> 0, pipe |-> <<>>, sig |-> "none", display |-> type \in EventLoop]

Blank == thread_base("callback", <<0, 1>>, 0, 1, FALSE, FALSE)

\* Descriptors an object holds open.
open_fds(self) ==
    (IF self.pipefd[1] THEN 1 ELSE 0) + (IF self.pipefd[2] THEN 1 ELSE 0)

\* is_equal without the typeid comparison.
is_equal_no_typeid(a, b) == a.hash = b.hash /\ a.key = b.key

is_equal(a, b) ==
    IF a.hash # b.hash THEN FALSE
    ELSE IF a.type # b.type THEN FALSE
    ELSE a.key = b.key

\* merge with "remaining = 0" outside the if.
merge_always_resets(self, other) ==
    [self EXCEPT !.period = IF other.period < self.period THEN other.period ELSE @,
                 !.remaining = 0,
                 !.unused = 0]

merge(self, other) ==
    [self EXCEPT !.period = IF other.period < self.period THEN other.period ELSE @,
                 !.remaining = IF other.period < self.period THEN 0 ELSE @,
                 !.unused = 0]

\* run() that starts a thread on every call.
run_always_spawns(self) ==
    [self EXCEPT !.thr = Append(@, "start_wait"),
                 !.thread = TRUE,
                 !.sem_start = IF @ < MaxSem THEN @ + 1 ELSE @,
                 !.buf = IF self.pipefd[2] /\ @ < MaxPipe THEN @ + 1 ELSE @,
                 !.pipe = IF self.pipefd[2] /\ Len(@) < MaxPipe
                          THEN Append(@, "T") ELSE @,
                 !.owed = IF @ <= MaxSem THEN @ + 1 ELSE @]

\* run(): start the thread if there is none, post sem_start, write 'T' to
\* the pipe if there is one (a write to a full non-blocking pipe fails and is
\* ignored; RunAllTick keeps run() from a full blocking one).  The count of
\* sem_start is capped at MaxSem: start_routine cannot tell a higher count
\* from MaxSem, since after every wait() it returns or drains the semaphore.
run(self) ==
    [self EXCEPT !.thr = IF ~self.thread THEN Append(@, "start_wait") ELSE @,
                 !.thread = TRUE,
                 !.sem_start = IF @ < MaxSem THEN @ + 1 ELSE @,
                 !.buf = IF self.pipefd[2] /\ @ < MaxPipe THEN @ + 1 ELSE @,
                 !.pipe = IF self.pipefd[2] /\ Len(@) < MaxPipe
                          THEN Append(@, "T") ELSE @,
                 !.owed = IF @ <= MaxSem THEN @ + 1 ELSE @]

Dec32(x) == IF x = 0 THEN UINT32_MAX ELSE x - 1

\* The loop body without "if(thr.wait) ++wait".
tick_forgets_wait(self, unique) ==
    LET due == self.remaining = 0
        s1 == [self EXCEPT !.remaining = Dec32(@)]
        s2 == IF due /\ unique THEN [s1 EXCEPT !.unused = @ + 1] ELSE s1
        go == due /\ (~unique \/ s2.unused < UNUSED_MAX)
        s3 == IF go THEN run([s2 EXCEPT !.remaining = self.period - 1]) ELSE s2
    IN  [obj |-> s3, ran |-> go, inc |-> FALSE, erase |-> s3.unused = UNUSED_MAX]

\* The loop body with ++unused on every pass over an object without holders,
\* due or not.
tick_counts_every_call(self, unique) ==
    LET due == self.remaining = 0
        s1 == [self EXCEPT !.remaining = Dec32(@)]
        s2 == IF unique THEN [s1 EXCEPT !.unused = @ + 1] ELSE s1
        go == due /\ (~unique \/ s2.unused < UNUSED_MAX)
        s3 == IF go THEN run([s2 EXCEPT !.remaining = self.period - 1]) ELSE s2
    IN  [obj |-> s3, ran |-> go, inc |-> go /\ self.wait,
         erase |-> s3.unused = UNUSED_MAX]

\* The loop body without the "!i->unique()" test.
tick_ignores_holders(self, unique) ==
    LET due == self.remaining = 0
        s1 == [self EXCEPT !.remaining = Dec32(@)]
        s2 == IF due THEN [s1 EXCEPT !.unused = @ + 1] ELSE s1
        go == due /\ s2.unused < UNUSED_MAX
        s3 == IF go THEN run([s2 EXCEPT !.remaining = self.period - 1]) ELSE s2
    IN  [obj |-> s3, ran |-> go, inc |-> go /\ self.wait,
         erase |-> s3.unused = UNUSED_MAX]

\* The loop body reloading the countdown with period instead of period-1.
tick_reloads_period(self, unique) ==
    LET due == self.remaining = 0
        s1 == [self EXCEPT !.remaining = Dec32(@)]
        s2 == IF due /\ unique THEN [s1 EXCEPT !.unused = @ + 1] ELSE s1
        go == due /\ (~unique \/ s2.unused < UNUSED_MAX)
        s3 == IF go THEN run([s2 EXCEPT !.remaining = self.period]) ELSE s2
    IN  [obj |-> s3, ran |-> go, inc |-> go /\ self.wait,
         erase |-> s3.unused = UNUSED_MAX]

\* The loop body calling run() on every due object, the one whose unused
\* counter has just reached UNUSED_MAX included.
tick_runs_when_due(self, unique) ==
    LET due == self.remaining = 0
        s1 == [self EXCEPT !.remaining = Dec32(@)]
        s2 == IF due /\ unique THEN [s1 EXCEPT !.unused = @ + 1] ELSE s1
        go == due
        s3 == IF go THEN run([s2 EXCEPT !.remaining = self.period - 1]) ELSE s2
    IN  [obj |-> s3, ran |-> go, inc |-> go /\ self.wait,
         erase |-> s3.unused = UNUSED_MAX]

\* One pass of the loop body of run_all_threads over the object self;
\* unique is i->unique().  Yields the object, whether it was run, whether
\* the local counter wait was incremented and whether its handle is erased.
tick(self, unique) ==
    LET due == self.remaining = 0
        s1 == [self EXCEPT !.remaining = Dec32(@)]
        s2 == IF due /\ unique THEN [s1 EXCEPT !.unused = @ + 1] ELSE s1
        go == due /\ (~unique \/ s2.unused < UNUSED_MAX)
        s3 == IF go THEN run([s2 EXCEPT !.remaining = self.period - 1]) ELSE s2
    IN  [obj |-> s3, ran |-> go, inc |-> go /\ self.wait,
         erase |-> s3.unused = UNUSED_MAX]

\* stop() that closes pipefd.first only.
stop_close_leaks_write_end(self) == IF self.pipefd[1] THEN 1 ELSE 0

\* The descriptors stop() closes: both ends of the pipe, if open.
stop_close(self) == open_fds(self)

\* stop() that joins whether or not there is a thread.
stop_joins_unconditionally(self) == 1

\* stop() without the join.
stop_joins_nothing(self) == 0

\* The threads stop() joins: if(thread) { ... thread->join(); delete thread; }
stop_joins(self) == IF self.thread THEN 1 ELSE 0

\* stop() that posts sem_start and leaves done alone.
stop_post_without_done(self) ==
    IF self.thread THEN [self EXCEPT !.sem_start = @ + 1] ELSE self

\* stop() up to the join: the object after "done = true; sem_start.post()".
stop_post(self) ==
    IF self.thread THEN [self EXCEPT !.done = TRUE, !.sem_start = @ + 1] ELSE self

\* ~x11_output(): the colours, fonts, drawable and window are released and
\* XCloseDisplay(display) is called.  The other classes have no destructor
\* body of their own.
x11_output_dtor(self) ==
    IF self.type \in EventLoop THEN [self EXCEPT !.display = FALSE] ELSE self

\* The object is destroyed: the destructor of the most derived class runs
\* first, ~thread_base, which calls stop(), last.  This is the object up to
\* the join inside stop().
destructor(self) == stop_post(x11_output_dtor(self))

\* ----- priv::task_pool ----------------------------------------------------

PoolIds == 1..MaxPool
TaskIds == 1..MaxTasks

\* task_pool(threads_): the pool with threads_ runner threads started.  run[i]
\* is the position of runner i: "none" (no such thread), "cv_wait", "tick"
\* (executing the task cur[i]) or "exited".
task_pool(threads_) ==
    [size |-> threads_, queue |-> <<>>, to_wait |-> 0, sem |-> 0, done |-> FALSE,
     run |-> [i \in PoolIds |-> IF i <= threads_ THEN "cv_wait" ELSE "none"],
     cur |-> [i \in PoolIds |-> 0]]

\* add() without ++to_wait.
add_forgets_count(p, handle) == [p EXCEPT !.queue = Append(@, handle)]

\* add(handle): ++to_wait; queue.push(handle); cv.notify_one();
add(p, handle) == [p EXCEPT !.to_wait = @ + 1, !.queue = Append(@, handle)]

\* The loop body of wait() without taking the semaphore down.
wait_step_keeps_sem(p) == [p EXCEPT !.to_wait = Dec32(@)]

\* One turn of the loop of wait(): sem.wait(); --to_wait;
wait_step(p) == [p EXCEPT !.sem = @ - 1, !.to_wait = Dec32(@)]

\* ----- list_map -------------------------------------------------------------
\*
\* The elements are pairs [first |-> key, second |-> data] in a singly linked
\* list, here a sequence; an iterator is a position in it, 0 for
\* before_begin() and Len + 1 for end().

MapKeys == 0..MaxKey
MapData == 0..MaxData

\* Compare = std::less<Key>
comp(a, b) == a < b

\* value_compare::operator()
value_comp(a, b) == comp(a.first, b.first)

\* Data(), the value operator[] gives a new element.
data_type == 0

end(l) == Len(l) + 1

\* Base::insert_after(t, x), Base::emplace_after(t, k, d)
insert_after(l, t, x) == SubSeq(l, 1, t) \o <<x>> \o SubSeq(l, t + 1, Len(l))

\* insert() without the test for an equal element.
RECURSIVE insert_without_equal_test(_, _, _)
insert_without_equal_test(l, x, t) ==
    LET i == t + 1 IN
    IF i = end(l) \/ value_comp(x, l[i])
    THEN [list |-> insert_after(l, t, x), it |-> i, inserted |-> TRUE]
    ELSE insert_without_equal_test(l, x, i)

\* insert(x), from the turn of its loop that begins with i = t: the list
\* after the call and the pair <iterator, bool> it returns.
RECURSIVE insert(_, _, _)
insert(l, x, t) ==
    LET i == t + 1 IN
    IF i = end(l) \/ value_comp(x, l[i])
    THEN [list |-> insert_after(l, t, x), it |-> i, inserted |-> TRUE]
    ELSE IF ~value_comp(l[i], x)
         THEN [list |-> l, it |-> i, inserted |-> FALSE]
         ELSE insert(l, x, i)

\* operator[](k), from the turn of its loop that begins with i = t: the list
\* after the call and the position of the element whose data it returns.
RECURSIVE subscript(_, _, _)
subscript(l, k, t) ==
    LET i == t + 1 IN
    IF i = end(l) \/ comp(k, l[i].first)
    THEN [list |-> insert_after(l, t, [first |-> k, second |-> data_type]),
          it |-> i, inserted |-> TRUE]
    ELSE IF ~comp(l[i].first, k)
         THEN [list |-> l, it |-> i, inserted |-> FALSE]
         ELSE subscript(l, k, i)

\* find(k), from the turn of its loop that begins with i = t.
RECURSIVE find(_, _, _)
find(l, k, t) ==
    LET i == t + 1 IN
    IF i = end(l) \/ comp(k, l[i].first)
    THEN end(l)
    ELSE IF ~comp(l[i].first, k)
         THEN i
         ELSE find(l, k, i)

\* ----- initial state: an empty container, nothing constructed ------------

Init ==
    /\ item = [o \in Objs |-> Blank]
    /\ alive = {}
    /\ threads = {}
    /\ refs = [o \in Objs |-> 0]
    /\ sem_wait = 0
    /\ cpc = "idle"
    /\ visited = {}
    /\ wait = 0
    /\ victim = 0
    /\ aborted = FALSE
    /\ trig = {}
    /\ calls = [o \in Objs |-> 0]
    /\ revived = {}
    /\ phase = [o \in Objs |-> 0]
    /\ nthreads = 0
    /\ nfds = 0
    /\ pool = task_pool(0)
    /\ tasks = [pc |-> "idle", due |-> {}, todo |-> {}, execd |-> [t \in TaskIds |-> 0],
                acct |-> 0]
    /\ thrown = "none"
    /\ list_map = [list |-> <<>>, keys |-> {},
                   call |-> [op |-> "none", key |-> 0, data |-> 0, had |-> FALSE,
                             before |-> <<>>, it |-> 0, inserted |-> FALSE]]

\* The coordinating thread is between two calls.
Main == cpc = "idle" /\ victim = 0 /\ ~aborted

\* The container has been destroyed; handles may still be held.
Gone == cpc = "gone" /\ victim = 0 /\ ~aborted

\* ----- register_thread<T>(period, keys...) --------------------------------

First(S) == CHOOSE x \in S : \A y \in S : x <= y

\* The entries of the container with T's type and an equal key tuple.
SameKey(type, key) == {e \in threads : item[e].type = type /\ item[e].key = key}

\* The call itself, whichever thread makes it: nothing in it waits for or
\* excludes a run_all_threads call.  seen tells whether a handle inserted
\* while the loop of run_all_threads is under way lands in the part of the
\* set the loop has already passed.
register_thread(type, key, period, w, seen) ==
    /\ \E nb \in (IF type \in Piped THEN BOOLEAN ELSE {FALSE}) :
       LET free == Objs \ alive
           \* where the candidate is constructed: the lowest free address
           this == IF free = {} THEN MaxObjs + 1 ELSE First(free)
           \* fcntl_setfl(... | O_NONBLOCK) goes through priv::fcntl_setf with
           \* F_GETFL as the command: the flag ends up set or not set
           h == [thread_base(type, key, get_hash(type, key, this), period, w,
                             type \in Piped) EXCEPT !.nonblock = nb]
           found == {e \in threads : is_equal(item[e], h)}
       IN IF found = {}
          THEN \* threads.insert(h) inserted it
               /\ free # {}
               /\ item' = [item EXCEPT ![this] = h]
               /\ alive' = alive \cup {this}
               /\ threads' = threads \cup {this}
               /\ visited' = IF seen THEN visited \cup {this} ELSE visited
               /\ refs' = [refs EXCEPT ![this] = 1]
               /\ calls' = [calls EXCEPT ![this] = 0]
               /\ phase' = [phase EXCEPT ![this] = 0]
               /\ nfds' = nfds + open_fds(h)
               /\ UNCHANGED <<aborted, revived, nthreads>>
          ELSE \* an equal handle is there: merge into it, h is destroyed
               LET e == First(found) IN
               /\ refs[e] < MaxRefs
               /\ IF item[e].wait # w
                  THEN \* assert(wait == other.wait): fails unless NDEBUG
                       \/ /\ aborted' = TRUE
                          /\ UNCHANGED <<item, refs, calls, revived, phase>>
                       \/ /\ item' = [item EXCEPT ![e] = merge(item[e], h)]
                          /\ refs' = [refs EXCEPT ![e] = @ + 1]
                          /\ calls' = [calls EXCEPT ![e] = 0]
                          /\ revived' = IF refs[e] = 0 /\ calls[e] > 0
                                         THEN revived \cup {e} ELSE revived
                          /\ phase' = [phase EXCEPT ![e] =
                                          IF period < item[e].period THEN 0 ELSE @]
                          /\ UNCHANGED aborted
                  ELSE /\ item' = [item EXCEPT ![e] = merge(item[e], h)]
                       /\ refs' = [refs EXCEPT ![e] = @ + 1]
                       /\ calls' = [calls EXCEPT ![e] = 0]
                       /\ revived' = IF refs[e] = 0 /\ calls[e] > 0
                                      THEN revived \cup {e} ELSE revived
                       /\ phase' = [phase EXCEPT ![e] =
                                       IF period < item[e].period THEN 0 ELSE @]
                       /\ UNCHANGED aborted
               \* the candidate goes with the caller's handle: ~thread_base
               \* runs stop() on it
               /\ nthreads' = nthreads - stop_joins(h)
               /\ nfds' = nfds + open_fds(h) - stop_close(h)
               /\ UNCHANGED <<alive, threads, visited>>
    /\ thrown' = "none"
    /\ UNCHANGED <<sem_wait, cpc, wait, victim, trig>>
    /\ UNCHANGED <<pool, tasks, list_map>>

\* A failing call that leaves the two descriptors of a pipe open.
RegisterFails_leaks_pipe(type) ==
    /\ Main
    /\ type \in Piped
    /\ thrown' = "errno_error"
    /\ nfds' = nfds + open_fds(thread_base(type, <<0, 1>>, 0, 1, FALSE, TRUE))
    /\ UNCHANGED <<item, alive, threads, refs, sem_wait, cpc, visited, wait,
                   victim, aborted, trig, calls, revived, phase, nthreads>>
    /\ UNCHANGED <<pool, tasks, list_map>>

\* new T(...) throws: pipe2() of the thread_base constructor has failed.
\* The exception leaves register_thread before do_register_thread is called.
RegisterFails(type) ==
    /\ Main
    /\ type \in Piped
    /\ thrown' = "errno_error"
    /\ UNCHANGED <<item, alive, threads, refs, sem_wait, cpc, visited, wait,
                   victim, aborted, trig, calls, revived, phase, nthreads, nfds>>
    /\ UNCHANGED <<pool, tasks, list_map>>

\* register_thread called by the coordinating thread between two calls of
\* run_all_threads.
Register(type, key, period, w) ==
    /\ Main
    /\ register_thread(type, key, period, w, FALSE)

\* register_thread called by another thread while the coordinating thread
\* is inside the loop of run_all_threads.
RegisterDuringRunAll(type, key, period, w) ==
    /\ cpc = "loop" /\ victim = 0 /\ ~aborted
    /\ \E seen \in BOOLEAN : register_thread(type, key, period, w, seen)

\* ----- a holder copies or drops its handle --------------------------------

Copy(o) ==
    /\ Main
    /\ o \in alive
    /\ refs[o] > 0
    /\ refs[o] < MaxRefs
    /\ refs' = [refs EXCEPT ![o] = @ + 1]
    /\ UNCHANGED <<item, alive, threads, sem_wait, cpc, visited, wait, victim,
                   aborted, trig, calls, revived, phase,
                   nthreads, nfds>>
    /\ UNCHANGED <<pool, tasks, thrown, list_map>>

\* Dropping the last reference of an object the container no longer holds
\* runs ~thread_base, that is stop().
Release(o) ==
    /\ Main \/ Gone
    /\ o \in alive
    /\ refs[o] > 0
    /\ refs' = [refs EXCEPT ![o] = @ - 1]
    /\ calls' = [calls EXCEPT ![o] = 0]
    /\ revived' = revived \ {o}
    /\ IF refs[o] = 1 /\ o \notin threads
       THEN /\ item' = [item EXCEPT ![o] = destructor(@)]
            /\ victim' = o
       ELSE UNCHANGED <<item, victim>>
    /\ UNCHANGED <<alive, threads, sem_wait, cpc, visited, wait, aborted, trig,
                   phase,
                   nthreads, nfds>>
    /\ UNCHANGED <<pool, tasks, thrown, list_map>>

\* ----- run_all_threads ----------------------------------------------------

RunAllBegin ==
    /\ Main
    /\ \A o \in threads : item[o].sem_start < MaxSem \/ item[o].type \in EventLoop
    /\ cpc' = "loop"
    /\ visited' = {}
    /\ wait' = 0
    /\ trig' = {}
    /\ UNCHANGED <<item, alive, threads, refs, sem_wait, victim, aborted, calls,
                   revived, phase,
                   nthreads, nfds>>
    /\ UNCHANGED <<pool, tasks, thrown, list_map>>

\* The loop body on one handle; the unordered_set is walked in any order.
RunAllTick(o) ==
    /\ cpc = "loop" /\ victim = 0
    /\ o \in threads \ visited
    /\ LET t == tick(item[o], refs[o] = 0)
       IN \* write() in run() blocks while a blocking pipe is full
          /\ ~(t.ran /\ item[o].pipefd[2] /\ ~item[o].nonblock
                     /\ item[o].buf = MaxPipe)
          /\ nthreads' = nthreads + Len(t.obj.thr) - Len(item[o].thr)
          /\ visited' = visited \cup {o}
          /\ wait' = IF t.inc THEN wait + 1 ELSE wait
          /\ trig' = IF t.ran THEN trig \cup {o} ELSE trig
          /\ calls' = [calls EXCEPT ![o] = IF refs[o] = 0 THEN @ + 1 ELSE 0]
          /\ phase' = [phase EXCEPT ![o] = (@ + 1) % item[o].period]
          /\ IF t.erase
             THEN \* threads.erase(t): the container's reference goes
                  /\ threads' = threads \ {o}
                  /\ IF refs[o] = 0
                     THEN /\ item' = [item EXCEPT ![o] = destructor(t.obj)]
                          /\ victim' = o
                     ELSE /\ item' = [item EXCEPT ![o] = t.obj]
                          /\ UNCHANGED victim
             ELSE /\ item' = [item EXCEPT ![o] = t.obj]
                  /\ UNCHANGED <<threads, victim>>
    /\ UNCHANGED <<alive, refs, sem_wait, cpc, aborted, revived, nfds>>
    /\ UNCHANGED <<pool, tasks, thrown, list_map>>

\* The loop left as soon as no stop() is going on, with handles not passed.
LoopDone_early == cpc = "loop" /\ victim = 0

\* The loop has passed every handle.
LoopDone == cpc = "loop" /\ victim = 0 /\ threads \subseteq visited

\* while(wait-- > 0) sem_wait.wait();
RunAllWait ==
    /\ LoopDone
    /\ wait > 0
    /\ sem_wait > 0
    /\ sem_wait' = sem_wait - 1
    /\ wait' = wait - 1
    /\ UNCHANGED <<item, alive, threads, refs, cpc, visited, victim, aborted,
                   trig, calls, revived, phase,
                   nthreads, nfds>>
    /\ UNCHANGED <<pool, tasks, thrown, list_map>>

RunAllReturn ==
    /\ LoopDone
    /\ wait = 0
    /\ cpc' = "idle"
    /\ revived' = {}
    /\ UNCHANGED <<item, alive, threads, refs, sem_wait, visited, wait, victim,
                   aborted, trig, calls, phase,
                   nthreads, nfds>>
    /\ UNCHANGED <<pool, tasks, thrown, list_map>>

\* ----- stop(): thread->join() returns, the object is destroyed ------------

\* stop() of an object with a thread and a pipe: the write end is made
\* blocking and write(pipefd.second, "X", 1) returns once the pipe has room.
StopWrite ==
    /\ victim # 0
    /\ item[victim].thread /\ item[victim].pipefd[2] /\ ~item[victim].sentX
    /\ item[victim].buf < MaxPipe
    /\ item' = [item EXCEPT ![victim].buf = @ + 1, ![victim].sentX = TRUE,
                            ![victim].pipe = Append(@, "X"),
                            ![victim].nonblock = FALSE]
    /\ UNCHANGED <<alive, threads, refs, sem_wait, cpc, visited, wait, victim,
                   aborted, trig, calls, revived, phase, nthreads, nfds>>
    /\ UNCHANGED <<pool, tasks, thrown, list_map>>

\* stop() that leaves thread and pipefd as they were.
stop_keeps_thread(self) == self

\* The object when stop() returns: the thread joined and deleted, thread =
\* NULL, both descriptors closed and set to -1.
stop(self) ==
    [self EXCEPT !.thread = FALSE, !.thr = <<>>,
                 !.pipefd = <<FALSE, FALSE>>, !.nonblock = FALSE,
                 !.buf = 0, !.pipe = <<>>, !.sentX = FALSE,
                 !.stops = IF ~self.thread /\ open_fds(self) = 0 /\ @ < 2
                           THEN @ + 1 ELSE @]

\* stop() called through a handle, on an object that stays alive.
StopCall(o) ==
    /\ Main
    /\ o \in alive
    /\ refs[o] > 0
    /\ item' = [item EXCEPT ![o] = stop_post(@)]
    /\ victim' = o
    /\ UNCHANGED <<alive, threads, refs, sem_wait, cpc, visited, wait, aborted,
                   trig, calls, revived, phase, nthreads, nfds>>
    /\ UNCHANGED <<pool, tasks, thrown, list_map>>

\* stop() that closes the pipe and returns without waiting for the thread.
JoinDone_without_join ==
    /\ victim # 0
    /\ (item[victim].thread /\ item[victim].pipefd[2]) => item[victim].sentX
    /\ IF refs[victim] > 0 \/ victim \in threads
       THEN /\ item' = [item EXCEPT ![victim] = stop(@)]
            /\ UNCHANGED <<alive, calls, phase>>
       ELSE /\ item' = [item EXCEPT ![victim] = Blank]
            /\ alive' = alive \ {victim}
            /\ calls' = [calls EXCEPT ![victim] = 0]
            /\ phase' = [phase EXCEPT ![victim] = 0]
    /\ victim' = 0
    /\ nthreads' = nthreads - stop_joins(item[victim])
    /\ nfds' = nfds - stop_close(item[victim])
    /\ UNCHANGED <<threads, refs, sem_wait, cpc, visited, wait, aborted, trig,
                   revived>>
    /\ UNCHANGED <<pool, tasks, thrown, list_map>>

\* thread->join() returns, stop() closes the pipe and returns; if it was
\* called by the destructor, the object is gone.
JoinDone ==
    /\ victim # 0
    /\ (item[victim].thread /\ item[victim].pipefd[2]) => item[victim].sentX
    /\ \A i \in 1..Len(item[victim].thr) : item[victim].thr[i] = "exited"
    /\ IF refs[victim] > 0 \/ victim \in threads
       THEN /\ item' = [item EXCEPT ![victim] = stop(@)]
            /\ UNCHANGED <<alive, calls, phase>>
       ELSE /\ item' = [item EXCEPT ![victim] = Blank]
            /\ alive' = alive \ {victim}
            /\ calls' = [calls EXCEPT ![victim] = 0]
            /\ phase' = [phase EXCEPT ![victim] = 0]
    /\ victim' = 0
    /\ nthreads' = nthreads - stop_joins(item[victim])
    /\ nfds' = nfds - stop_close(item[victim])
    /\ UNCHANGED <<threads, refs, sem_wait, cpc, visited, wait, aborted, trig,
                   revived>>
    /\ UNCHANGED <<pool, tasks, thrown, list_map>>

\* ----- the container is destroyed -----------------------------------------

\* The destructor of the container is entered.  Members are destroyed in
\* reverse order of declaration: the pool, then the set of handles.
ContainerDtor ==
    /\ Main
    /\ cpc' = "dtor"
    /\ UNCHANGED <<item, alive, threads, refs, sem_wait, visited, wait, victim,
                   aborted, trig, calls, revived, phase, nthreads, nfds>>
    /\ UNCHANGED <<pool, tasks, thrown, list_map>>

\* The set drops its reference of o; if it was the last one, ~thread_base
\* runs stop().
DtorErase(o) ==
    /\ cpc = "dtor" /\ victim = 0
    /\ pool.size = 0
    /\ o \in threads
    /\ threads' = threads \ {o}
    /\ IF refs[o] = 0
       THEN /\ item' = [item EXCEPT ![o] = destructor(@)]
            /\ victim' = o
       ELSE UNCHANGED <<item, victim>>
    /\ UNCHANGED <<alive, refs, sem_wait, cpc, visited, wait, aborted, trig,
                   calls, revived, phase, nthreads, nfds>>
    /\ UNCHANGED <<pool, tasks, thrown, list_map>>

\* The destructor of the container returns.
DtorDone ==
    /\ cpc = "dtor" /\ victim = 0
    /\ pool.size = 0
    /\ threads = {}
    /\ cpc' = "gone"
    /\ UNCHANGED <<item, alive, threads, refs, sem_wait, visited, wait, victim,
                   aborted, trig, calls, revived, phase, nthreads, nfds>>
    /\ UNCHANGED <<pool, tasks, thrown, list_map>>

\* ----- start_routine, one step of thread i of object o --------------------

\* sem_start.wait() returns; if(done) return;
WorkerWake(o, i) ==
    /\ o \in alive /\ i \in 1..Len(item[o].thr)
    /\ item[o].thr[i] = "start_wait"
    /\ item[o].sem_start > 0
    /\ item' = [item EXCEPT ![o].sem_start = @ - 1,
                            ![o].thr[i] = IF item[o].done THEN "exited" ELSE "drain"]
    /\ UNCHANGED <<alive, threads, refs, sem_wait, cpc, visited, wait, victim,
                   aborted, trig, calls, revived, phase,
                   nthreads, nfds>>
    /\ UNCHANGED <<pool, tasks, thrown, list_map>>

\* while(sem_start.trywait()); and work() begins
WorkerDrain(o, i) ==
    /\ o \in alive /\ i \in 1..Len(item[o].thr)
    /\ item[o].thr[i] = "drain"
    /\ item' = [item EXCEPT ![o].sem_start = 0, ![o].thr[i] = "work",
                            ![o].owed = 0]
    /\ UNCHANGED <<alive, threads, refs, sem_wait, cpc, visited, wait, victim,
                   aborted, trig, calls, revived, phase,
                   nthreads, nfds>>
    /\ UNCHANGED <<pool, tasks, thrown, list_map>>

\* work() returns and sem_wait is posted whatever the wait flag.
WorkerFinish_always_posts(o, i) ==
    /\ o \in alive /\ i \in 1..Len(item[o].thr)
    /\ item[o].type \notin EventLoop
    /\ item[o].thr[i] = "work"
    /\ item' = [item EXCEPT ![o].thr[i] = "start_wait"]
    /\ sem_wait' = sem_wait + 1
    /\ UNCHANGED <<alive, threads, refs, cpc, visited, wait, victim, aborted,
                   trig, calls, revived, phase,
                   nthreads, nfds>>
    /\ UNCHANGED <<pool, tasks, thrown, list_map>>

\* work() returns; if(wait) sem_wait.post();
WorkerFinish(o, i) ==
    /\ o \in alive /\ i \in 1..Len(item[o].thr)
    /\ item[o].type \notin EventLoop
    /\ item[o].thr[i] = "work"
    /\ item' = [item EXCEPT ![o].thr[i] = "start_wait"]
    /\ sem_wait' = IF item[o].wait THEN sem_wait + 1 ELSE sem_wait
    /\ UNCHANGED <<alive, threads, refs, cpc, visited, wait, victim, aborted,
                   trig, calls, revived, phase,
                   nthreads, nfds>>
    /\ UNCHANGED <<pool, tasks, thrown, list_map>>

\* ----- x11_output::work, the event loop inside start_routine --------------

\* select() returns because signalfd() is readable; if(is_done()) return;
\* otherwise on to get_signal().
X11Select(o, i) ==
    /\ o \in alive /\ i \in 1..Len(item[o].thr)
    /\ item[o].type \in EventLoop
    /\ item[o].thr[i] = "work"
    /\ item[o].buf > 0
    /\ item' = [item EXCEPT ![o].thr[i] = IF item[o].done THEN "start_wait" ELSE "read"]
    /\ sem_wait' = IF item[o].done /\ item[o].wait THEN sem_wait + 1 ELSE sem_wait
    /\ UNCHANGED <<alive, threads, refs, cpc, visited, wait, victim, aborted,
                   trig, calls, revived, phase, nthreads, nfds>>
    /\ UNCHANGED <<pool, tasks, thrown, list_map>>

\* select() returns because of an X event while the pipe is empty; this
\* changes the state only if(is_done()), when work() returns.
X11Event(o, i) ==
    /\ o \in alive /\ i \in 1..Len(item[o].thr)
    /\ item[o].type \in EventLoop
    /\ item[o].thr[i] = "work"
    /\ item[o].buf = 0
    /\ item[o].done
    /\ item' = [item EXCEPT ![o].thr[i] = "start_wait"]
    /\ sem_wait' = IF item[o].wait THEN sem_wait + 1 ELSE sem_wait
    /\ UNCHANGED <<alive, threads, refs, cpc, visited, wait, victim, aborted,
                   trig, calls, revived, phase, nthreads, nfds>>
    /\ UNCHANGED <<pool, tasks, thrown, list_map>>

\* get_signal(): read(signalfd(), &s, 1) takes one byte out of the pipe.
X11Read(o, i) ==
    /\ o \in alive /\ i \in 1..Len(item[o].thr)
    /\ item[o].type \in EventLoop
    /\ item[o].thr[i] = "read"
    /\ item' = [item EXCEPT ![o].thr[i] = "work", ![o].buf = @ - 1,
                            ![o].pipe = Tail(@),
                            ![o].sig = get_signal(Head(item[o].pipe))]
    /\ UNCHANGED <<alive, threads, refs, sem_wait, cpc, visited, wait, victim,
                   aborted, trig, calls, revived, phase, nthreads, nfds>>
    /\ UNCHANGED <<pool, tasks, thrown, list_map>>

\* ----- task_container: the pool and run_all_tasks --------------------------

\* What the pool leaves alone: the variables of thread_container and its
\* objects, and the list_map.
container_vars ==
    <<item, alive, threads, refs, sem_wait, cpc, visited, wait, victim, aborted,
      trig, calls, revived, phase, nfds, thrown, list_map>>

\* task_container(): pool(n) starts the n runner threads.
PoolStart(n) ==
    /\ pool.size = 0 /\ ~pool.done
    /\ pool' = task_pool(n)
    /\ nthreads' = nthreads + n
    /\ UNCHANGED <<container_vars, tasks>>

\* run_all_tasks is entered; due is the set of the pooled tasks whose
\* tick() will call run() in this call.
TasksBegin(due) ==
    /\ tasks.pc = "idle"
    /\ pool.size > 0 /\ ~pool.done
    /\ tasks' = [pc |-> "loop", due |-> due, todo |-> due,
                 execd |-> [t \in TaskIds |-> 0], acct |-> 0]
    /\ UNCHANGED <<container_vars, nthreads, pool>>

\* (*i)->tick() of a due pooled_task_holder: run() is pool.add(task).
TasksTick(t) ==
    /\ tasks.pc = "loop"
    /\ t \in tasks.todo
    /\ pool' = add(pool, t)
    /\ tasks' = [tasks EXCEPT !.todo = @ \ {t}]
    /\ UNCHANGED <<container_vars, nthreads>>

\* pool.wait(): while(to_wait > 0) { sem.wait(); --to_wait; }
PoolWait ==
    /\ tasks.pc = "loop" /\ tasks.todo = {}
    /\ pool.to_wait > 0
    /\ pool.sem > 0
    /\ pool' = wait_step(pool)
    /\ tasks' = [tasks EXCEPT !.acct = @ + 1]
    /\ UNCHANGED <<container_vars, nthreads>>

\* pool.wait() and run_all_tasks return.
TasksReturn ==
    /\ tasks.pc = "loop" /\ tasks.todo = {}
    /\ ~(pool.to_wait > 0)
    /\ tasks' = [tasks EXCEPT !.pc = "idle"]
    /\ UNCHANGED <<container_vars, nthreads, pool>>

\* runner(): the queue is not empty, the runner pops its front.
RunnerPop(i) ==
    /\ pool.run[i] = "cv_wait"
    /\ pool.queue # <<>>
    /\ pool' = [pool EXCEPT !.run[i] = "tick", !.cur[i] = Head(pool.queue),
                             !.queue = Tail(@)]
    /\ UNCHANGED <<container_vars, nthreads, tasks>>

\* runner(): the task's tick() has returned, the runner posts sem.
RunnerDone(i) ==
    /\ pool.run[i] = "tick"
    /\ tasks' = [tasks EXCEPT !.execd[pool.cur[i]] = @ + 1]
    /\ pool' = [pool EXCEPT !.run[i] = "cv_wait", !.cur[i] = 0, !.sem = @ + 1]
    /\ UNCHANGED <<container_vars, nthreads>>

\* ~task_pool(): done = true, all runners are woken.
PoolShutdown ==
    /\ tasks.pc = "idle"
    /\ pool.size > 0 /\ ~pool.done
    /\ pool' = [pool EXCEPT !.done = TRUE]
    /\ UNCHANGED <<container_vars, nthreads, tasks>>

\* runner(): woken with done set, the runner returns.
RunnerExit(i) ==
    /\ pool.run[i] = "cv_wait"
    /\ pool.done
    /\ pool' = [pool EXCEPT !.run[i] = "exited"]
    /\ UNCHANGED <<container_vars, nthreads, tasks>>

\* ~task_pool(): every runner is joined.
PoolJoin ==
    /\ pool.done /\ pool.size > 0
    /\ \A i \in PoolIds : pool.run[i] \in {"none", "exited"}
    /\ pool' = [task_pool(0) EXCEPT !.done = TRUE]
    /\ nthreads' = nthreads - pool.size
    /\ UNCHANGED <<container_vars, tasks>>

\* ----- task_pool step by step: the mutex and the condition variable --------
\*
\* runner() between two uses of the mutex.  A runner is "ready" (about to
\* lock the mutex: just started, woken, or done with a task), "checked"
\* (holding the mutex, having found the queue empty and done not set, about
\* to call cv.wait), "cv_wait" (blocked in cv.wait, the mutex released),
\* "tick" or "exited".  cv.wait is entered with the mutex held, so the mutex
\* is held exactly while some runner is "checked".

Locked == \E i \in PoolIds : pool.run[i] = "checked"

Waiting == {i \in PoolIds : pool.run[i] = "cv_wait"}

\* task_pool(n): the n threads are started at the top of runner().
RunnerStart(n) ==
    /\ pool.size = 0 /\ ~pool.done
    /\ pool' = [task_pool(n) EXCEPT
                  !.run = [i \in PoolIds |-> IF i <= n THEN "ready" ELSE "none"]]
    /\ nthreads' = nthreads + n
    /\ UNCHANGED <<container_vars, tasks>>

\* tick() of a due pooled_task_holder, that is pool.add(task): with the
\* mutex held the task is queued and cv.notify_one() wakes one of the
\* runners blocked in cv.wait, if there is one.
TasksTickLocked(t) ==
    /\ tasks.pc = "loop"
    /\ t \in tasks.todo
    /\ ~Locked
    /\ \/ /\ Waiting = {}
          /\ pool' = add(pool, t)
       \/ \E i \in Waiting : pool' = [add(pool, t) EXCEPT !.run[i] = "ready"]
    /\ tasks' = [tasks EXCEPT !.todo = @ \ {t}]
    /\ UNCHANGED <<container_vars, nthreads>>

\* runner() takes the mutex and looks: done set, it returns; a task queued,
\* it pops the task and releases the mutex; neither, it goes on to cv.wait.
RunnerCheck(i) ==
    /\ pool.run[i] = "ready"
    /\ ~Locked
    /\ pool' = IF pool.done THEN [pool EXCEPT !.run[i] = "exited"]
               ELSE IF pool.queue # <<>>
                    THEN [pool EXCEPT !.run[i] = "tick", !.cur[i] = Head(pool.queue),
                                      !.queue = Tail(@)]
                    ELSE [pool EXCEPT !.run[i] = "checked"]
    /\ UNCHANGED <<container_vars, nthreads, tasks>>

\* cv.wait(lock): the runner releases the mutex and blocks.
RunnerSleep(i) ==
    /\ pool.run[i] = "checked"
    /\ pool' = [pool EXCEPT !.run[i] = "cv_wait"]
    /\ UNCHANGED <<container_vars, nthreads, tasks>>

\* cv.wait returns without a notification.
RunnerSpurious(i) ==
    /\ pool.run[i] = "cv_wait"
    /\ pool' = [pool EXCEPT !.run[i] = "ready"]
    /\ UNCHANGED <<container_vars, nthreads, tasks>>

\* The task's tick() has returned, the runner posts sem.
RunnerFinish(i) ==
    /\ pool.run[i] = "tick"
    /\ tasks' = [tasks EXCEPT !.execd[pool.cur[i]] = @ + 1]
    /\ pool' = [pool EXCEPT !.run[i] = "ready", !.cur[i] = 0, !.sem = @ + 1]
    /\ UNCHANGED <<container_vars, nthreads>>

\* ~task_pool() that sets done and notifies without taking the mutex.
Shutdown_without_lock ==
    /\ tasks.pc = "idle"
    /\ pool.size > 0 /\ ~pool.done
    /\ pool' = [pool EXCEPT !.done = TRUE,
                            !.run = [i \in PoolIds |->
                                       IF i \in Waiting THEN "ready" ELSE pool.run[i]]]
    /\ UNCHANGED <<container_vars, nthreads, tasks>>

\* ~task_pool(): with the mutex held, done = true and cv.notify_all() wakes
\* every runner blocked in cv.wait.
Shutdown ==
    /\ tasks.pc = "idle"
    /\ pool.size > 0 /\ ~pool.done
    /\ ~Locked
    /\ pool' = [pool EXCEPT !.done = TRUE,
                            !.run = [i \in PoolIds |->
                                       IF i \in Waiting THEN "ready" ELSE pool.run[i]]]
    /\ UNCHANGED <<container_vars, nthreads, tasks>>

\* ----- thread_task: a worker that follows the documented protocol ----------
\*
\* work() is the main function of the thread: do the work, call wait() for
\* the next update signal, return if is_done().  sem_start stands for the
\* semaphore start; the thread is at "work", at "wait" (inside start.wait()),
\* at "woken" (wait() has returned, is_done() not yet read) or "exited".

\* thread_task(): done(false), the semaphore at 0.
thread_task == [Blank EXCEPT !.type = "thread_task"]

\* tick(): start.post()
thread_task_tick(self) == [self EXCEPT !.sem_start = @ + 1]

\* stop() as "tick(); done = true;".
thread_task_stop_posts_first(self, n) ==
    IF n = 1 THEN thread_task_tick(self) ELSE [self EXCEPT !.done = TRUE]

\* The n-th statement of stop(): done = true; tick();
thread_task_stop(self, n) ==
    IF n = 1 THEN [self EXCEPT !.done = TRUE] ELSE thread_task_tick(self)

\* A thread_task is constructed and its thread started on work().
TaskSpawn(o) ==
    /\ victim = 0
    /\ o \notin alive
    /\ item' = [item EXCEPT ![o] = [thread_task EXCEPT !.thread = TRUE,
                                                       !.thr = <<"work">>]]
    /\ alive' = alive \cup {o}
    /\ nthreads' = nthreads + 1
    /\ UNCHANGED <<threads, refs, sem_wait, cpc, visited, wait, victim, aborted,
                   trig, calls, revived, phase, nfds>>
    /\ UNCHANGED <<pool, tasks, thrown, list_map>>

\* The coordinating thread calls tick().
TaskTick(o) ==
    /\ victim = 0
    /\ o \in alive /\ item[o].type = "thread_task"
    /\ item[o].sem_start < MaxSem
    /\ item' = [item EXCEPT ![o] = thread_task_tick(@)]
    /\ UNCHANGED <<alive, threads, refs, sem_wait, cpc, visited, wait, victim,
                   aborted, trig, calls, revived, phase, nthreads, nfds>>
    /\ UNCHANGED <<pool, tasks, thrown, list_map>>

\* The coordinating thread calls stop() and executes its first statement.
TaskStopBegin(o) ==
    /\ victim = 0
    /\ o \in alive /\ item[o].type = "thread_task"
    /\ ~item[o].done
    /\ item' = [item EXCEPT ![o] = thread_task_stop(@, 1)]
    /\ victim' = o
    /\ UNCHANGED <<alive, threads, refs, sem_wait, cpc, visited, wait, aborted,
                   trig, calls, revived, phase, nthreads, nfds>>
    /\ UNCHANGED <<pool, tasks, thrown, list_map>>

\* The second statement of stop(); stop() returns.
TaskStopEnd ==
    /\ victim # 0
    /\ item[victim].type = "thread_task"
    /\ item' = [item EXCEPT ![victim] = thread_task_stop(@, 2)]
    /\ victim' = 0
    /\ UNCHANGED <<alive, threads, refs, sem_wait, cpc, visited, wait, aborted,
                   trig, calls, revived, phase, nthreads, nfds>>
    /\ UNCHANGED <<pool, tasks, thrown, list_map>>

\* The work is done; the worker calls wait().
TaskWorkDone(o) ==
    /\ o \in alive /\ item[o].type = "thread_task"
    /\ item[o].thr = <<"work">>
    /\ item' = [item EXCEPT ![o].thr = <<"wait">>]
    /\ UNCHANGED <<alive, threads, refs, sem_wait, cpc, visited, wait, victim,
                   aborted, trig, calls, revived, phase, nthreads, nfds>>
    /\ UNCHANGED <<pool, tasks, thrown, list_map>>

\* wait(): start.wait() returns.
TaskWake(o) ==
    /\ o \in alive /\ item[o].type = "thread_task"
    /\ item[o].thr = <<"wait">>
    /\ item[o].sem_start > 0
    /\ item' = [item EXCEPT ![o].thr = <<"woken">>, ![o].sem_start = @ - 1]
    /\ UNCHANGED <<alive, threads, refs, sem_wait, cpc, visited, wait, victim,
                   aborted, trig, calls, revived, phase, nthreads, nfds>>
    /\ UNCHANGED <<pool, tasks, thrown, list_map>>

\* The worker reads is_done(): it returns from work(), or goes on working.
TaskCheck(o) ==
    /\ o \in alive /\ item[o].type = "thread_task"
    /\ item[o].thr = <<"woken">>
    /\ item' = [item EXCEPT ![o].thr = IF item[o].done THEN <<"exited">>
                                                       ELSE <<"work">>]
    /\ UNCHANGED <<alive, threads, refs, sem_wait, cpc, visited, wait, victim,
                   aborted, trig, calls, revived, phase, nthreads, nfds>>
    /\ UNCHANGED <<pool, tasks, thrown, list_map>>

NextTask ==
    \/ \E o \in Objs : TaskSpawn(o)
    \/ \E o \in Objs : TaskTick(o)
    \/ \E o \in Objs : TaskStopBegin(o)
    \/ TaskStopEnd
    \/ \E o \in Objs : TaskWorkDone(o)
    \/ \E o \in Objs : TaskWake(o)
    \/ \E o \in Objs : TaskCheck(o)

SpecTask == Init /\ [][NextTask]_vars

\* The same where every piece of work comes to its end, the worker takes its
\* next step whenever it can, and a stop() call that has begun goes on.
FairTask ==
    /\ SpecTask
    /\ WF_vars(TaskStopEnd)
    /\ \A o \in Objs :
         /\ WF_vars(TaskWorkDone(o))
         /\ WF_vars(TaskWake(o))
         /\ WF_vars(TaskCheck(o))

\* ----- calls on the list_map ------------------------------------------------

\* Everything but the list_map.
scheduler_vars ==
    <<item, alive, threads, refs, sem_wait, cpc, visited, wait, victim, aborted,
      trig, calls, revived, phase, nthreads, nfds, pool, tasks, thrown>>

\* list_map.insert(value_type(k, d))
Insert(k, d) ==
    LET r == insert(list_map.list, [first |-> k, second |-> d], 0) IN
    /\ list_map' = [list |-> r.list, keys |-> list_map.keys \cup {k},
                    call |-> [op |-> "insert", key |-> k, data |-> d,
                              had |-> k \in list_map.keys,
                              before |-> list_map.list,
                              it |-> r.it, inserted |-> r.inserted]]
    /\ UNCHANGED scheduler_vars

\* list_map[k]
Subscript(k) ==
    LET r == subscript(list_map.list, k, 0) IN
    /\ list_map' = [list |-> r.list, keys |-> list_map.keys \cup {k},
                    call |-> [op |-> "subscript", key |-> k, data |-> data_type,
                              had |-> k \in list_map.keys,
                              before |-> list_map.list,
                              it |-> r.it, inserted |-> r.inserted]]
    /\ UNCHANGED scheduler_vars

\* list_map.find(k)
Find(k) ==
    /\ list_map' = [list_map EXCEPT
                     !.call = [op |-> "find", key |-> k, data |-> 0,
                               had |-> k \in list_map.keys,
                               before |-> list_map.list,
                               it |-> find(list_map.list, k, 0),
                               inserted |-> FALSE]]
    /\ UNCHANGED scheduler_vars

NextListMap ==
    \/ \E k \in MapKeys, d \in MapData : Insert(k, d)
    \/ \E k \in MapKeys : Subscript(k)
    \/ \E k \in MapKeys : Find(k)

SpecListMap == Init /\ [][NextListMap]_vars

\* The callers' side: register_thread with the classes TT, the key tuples KK
\* and the wait flags WW.
RegisterIn(TT, KK, WW) ==
    \E type \in TT, key \in KK, period \in Periods, w \in WW :
        Register(type, key, period, w)

Holder ==
    \/ \E o \in Objs : Copy(o)
    \/ \E o \in Objs : Release(o)

RunAll ==
    \/ RunAllBegin
    \/ \E o \in Objs : RunAllTick(o)
    \/ RunAllWait
    \/ RunAllReturn
    \/ JoinDone

Worker ==
    \/ \E o \in Objs : \E i \in 1..Len(item[o].thr) : WorkerWake(o, i)
    \/ \E o \in Objs : \E i \in 1..Len(item[o].thr) : WorkerDrain(o, i)
    \/ \E o \in Objs : \E i \in 1..Len(item[o].thr) : WorkerFinish(o, i)

\* Every class and key tuple, all items registered with wait = true.
Next == RegisterIn(Types, Keys, {TRUE}) \/ Holder \/ RunAll \/ Worker

Spec == Init /\ [][Next]_vars

\* Two classes that hash their keys and one key tuple, so at most two
\* entries: curl items wait for completion, hddtemp items do not.
NextAsync ==
    \/ RegisterIn({"curl"}, {<<0, 1>>}, {TRUE})
    \/ RegisterIn({"hddtemp"}, {<<0, 1>>}, {FALSE})
    \/ Holder \/ RunAll \/ Worker

SpecAsync == Init /\ [][NextAsync]_vars

\* The same two classes, all items registered with wait = true.
NextTypes == RegisterIn(KeyHashed, {<<0, 1>>}, {TRUE}) \/ Holder \/ RunAll \/ Worker

SpecTypes == Init /\ [][NextTypes]_vars

\* One class and one key tuple, so one entry: the life of a single item.
NextSolo == RegisterIn({"curl"}, {<<0, 1>>}, BOOLEAN) \/ Holder \/ RunAll \/ Worker

SpecSolo == Init /\ [][NextSolo]_vars

\* The pipe side of stop() and the event loop of x11_output.
X11 ==
    \/ StopWrite
    \/ \E o \in Objs : \E i \in 1..Len(item[o].thr) :
          X11Select(o, i) \/ X11Event(o, i) \/ X11Read(o, i)

\* out_to_x_setting::set and out_to_stdout's set: the one
\* output_methods.register_thread<T>(1, ...) call of an output method (period
\* 1; output_method passes wait_ = false).
RegisterOutput(type) == alive = {} /\ Register(type, <<0, 1>>, 1, FALSE)

\* start_routine around an event loop: work() is left through is_done() only.
StartRoutine ==
    \E o \in Objs : \E i \in 1..Len(item[o].thr) : WorkerWake(o, i) \/ WorkerDrain(o, i)

\* run_all_threads over items that are not waited for.
RunAllAsync == RunAllBegin \/ (\E o \in Objs : RunAllTick(o)) \/ RunAllReturn \/ JoinDone

\* conky with out_to_x: one x11_output.
NextPipe == RegisterOutput("x11") \/ Holder \/ RunAllAsync \/ StartRoutine \/ X11

SpecPipe == Init /\ [][NextPipe]_vars

\* The same with the scheduler's guarantees: a thread that can take its next
\* step takes it, a write() or join() that can return returns, and
\* run_all_threads goes on.  Nothing obliges the callers to register or to
\* release, nor the X server to send an event.
FairPipe ==
    /\ SpecPipe
    /\ WF_vars(RunAllAsync)
    /\ WF_vars(StopWrite)
    /\ \A o \in Objs :
         /\ WF_vars(\E i \in 1..Len(item[o].thr) : WorkerWake(o, i))
         /\ WF_vars(\E i \in 1..Len(item[o].thr) : WorkerDrain(o, i))
         /\ WF_vars(\E i \in 1..Len(item[o].thr) : X11Select(o, i))
         /\ WF_vars(\E i \in 1..Len(item[o].thr) : X11Read(o, i))


\* One class of items with wait = false, one key.
NextHung ==
    RegisterIn({"hddtemp"}, {<<0, 1>>}, {FALSE}) \/ Holder \/ RunAllAsync \/ Worker

SpecHung == Init /\ [][NextHung]_vars

\* The same where run_all_threads, join() and start_routine go on whenever
\* they can, while work() of an item with wait = false need not return.
FairHung ==
    /\ SpecHung
    /\ WF_vars(\E o \in Objs : RunAllTick(o))
    /\ WF_vars(RunAllReturn)
    /\ WF_vars(JoinDone)
    /\ \A o \in Objs :
         /\ WF_vars(\E i \in 1..Len(item[o].thr) : WorkerWake(o, i))
         /\ WF_vars(\E i \in 1..Len(item[o].thr) : WorkerDrain(o, i))
         /\ WF_vars(\E i \in 1..Len(item[o].thr) : item[o].wait /\ WorkerFinish(o, i))


\* Two callers: the coordinating thread, and a second thread that calls
\* register_thread at any time.
NextRace ==
    \/ NextTypes
    \/ \E type \in KeyHashed, period \in Periods :
          RegisterDuringRunAll(type, <<0, 1>>, period, TRUE)

SpecRace == Init /\ [][NextRace]_vars

\* conky with out_to_x, where creating the pipe of an x11_output can fail.
NextFail ==
    \/ RegisterOutput("x11")
    \/ \E type \in Piped : RegisterFails(type)
    \/ Holder \/ RunAllAsync \/ StartRoutine \/ X11

SpecFail == Init /\ [][NextFail]_vars

\* An x11_output whose holder calls stop() any number of times before the
\* handle is released and the container destroyed, in either order.
NextStop ==
    \/ RegisterOutput("x11")
    \/ Holder \/ RunAllAsync \/ StartRoutine \/ X11
    \/ \E o \in Objs : StopCall(o)
    \/ ContainerDtor
    \/ \E o \in Objs : DtorErase(o)
    \/ DtorDone

SpecStop == Init /\ [][NextStop]_vars

\* One item, registered with either wait flag, under the scheduler's
\* guarantees and with every work() returning: run_all_threads, join() and
\* every step of start_routine, the return of work() included, happen
\* whenever they can.  Nothing obliges the callers to register, to release
\* or to call run_all_threads.
FairWork ==
    /\ SpecSolo
    /\ WF_vars(\E o \in Objs : RunAllTick(o))
    /\ WF_vars(RunAllWait)
    /\ WF_vars(RunAllReturn)
    /\ WF_vars(JoinDone)
    /\ \A o \in Objs :
         /\ WF_vars(\E i \in 1..Len(item[o].thr) : WorkerWake(o, i))
         /\ WF_vars(\E i \in 1..Len(item[o].thr) : WorkerDrain(o, i))
         /\ WF_vars(\E i \in 1..Len(item[o].thr) : WorkerFinish(o, i))

\* A task_container with pooled tasks only: the pool is started with any
\* number of runners, every run_all_tasks call finds any set of tasks due.
RunAllTasks ==
    \/ \E due \in SUBSET TaskIds : TasksBegin(due)
    \/ \E t \in TaskIds : TasksTick(t)
    \/ PoolWait
    \/ TasksReturn

Runner == \E i \in PoolIds : RunnerPop(i) \/ RunnerDone(i) \/ RunnerExit(i)

NextPool ==
    \/ \E n \in PoolIds : PoolStart(n)
    \/ RunAllTasks
    \/ Runner
    \/ PoolShutdown
    \/ PoolJoin

SpecPool == Init /\ [][NextPool]_vars

\* The pool with its mutex and condition variable, from the start of the
\* runners to their join.
RunAllTasksLocked ==
    \/ \E due \in SUBSET TaskIds : TasksBegin(due)
    \/ \E t \in TaskIds : TasksTickLocked(t)
    \/ PoolWait
    \/ TasksReturn

RunnerLocked ==
    \E i \in PoolIds :
        RunnerCheck(i) \/ RunnerSleep(i) \/ RunnerSpurious(i) \/ RunnerFinish(i)

NextRunner ==
    \/ \E n \in PoolIds : RunnerStart(n)
    \/ RunAllTasksLocked
    \/ RunnerLocked
    \/ Shutdown
    \/ PoolJoin

SpecRunner == Init /\ [][NextRunner]_vars

\* The same under the scheduler's guarantees: a runner that can take the
\* mutex, enter cv.wait or finish its task does so, and join() returns when
\* the threads have ended.  cv.wait need not return without a notification,
\* and nothing obliges the coordinating thread to call run_all_tasks or to
\* destroy the pool.
FairRunner ==
    /\ SpecRunner
    /\ \A i \in PoolIds :
         /\ WF_vars(RunnerCheck(i))
         /\ WF_vars(RunnerSleep(i))
         /\ WF_vars(RunnerFinish(i))
    /\ WF_vars(PoolJoin)

\* The whole life of a container: the pool is started, one output method is
\* registered, held, triggered and released, the container is destroyed.
Construct == \E n \in PoolIds : cpc = "idle" /\ PoolStart(n)

Destruct ==
    \/ ContainerDtor
    \/ cpc = "dtor" /\ PoolShutdown
    \/ \E i \in PoolIds : RunnerExit(i)
    \/ PoolJoin
    \/ \E o \in Objs : DtorErase(o)
    \/ DtorDone

NextShutdown ==
    \/ Construct
    \/ \E type \in Outputs : RegisterOutput(type)
    \/ Holder \/ RunAllAsync \/ Worker \/ X11
    \/ Destruct

SpecShutdown == Init /\ [][NextShutdown]_vars


\* ----- properties ---------------------------------------------------------

Min(a, b) == IF a < b THEN a ELSE b

\* The threads of o that are inside an execution of work().
InWork(o) == {i \in 1..Len(item[o].thr) : item[o].thr[i] = "work"}

\* C3: any two work items of the same concrete class constructed from equal
\* key tuples report equal hash values.
C3_EqualKeysEqualHash ==
    \A a \in alive, b \in alive :
        (item[a].type = item[b].type /\ item[a].key = item[b].key)
            => item[a].hash = item[b].hash

\* C2: the container never holds two entries of the same concrete class with
\* equal key tuples.
C2_OneEntryPerClass ==
    \A a \in threads, b \in threads :
        (item[a].type = item[b].type /\ item[a].key = item[b].key) => a = b

\* C1: a register_thread<T>(p2, k) call made while an item of class T with an
\* equal key tuple is registered returns a handle to that item, adds no
\* entry, and leaves the item's period at the smaller of its period and p2.
C1_SameItemMinPeriod ==
    [][\A type \in Types, key \in Keys, period \in Periods, w \in BOOLEAN :
         (Register(type, key, period, w) /\ SameKey(type, key) # {})
            => /\ threads' = threads
               /\ \E e \in SameKey(type, key) :
                    /\ refs'[e] = refs[e] + 1
                    /\ item'[e].period = Min(item[e].period, period)]_vars

\* C8: register_thread<T> with an equal key, called after the item's last
\* handle was dropped and before its eviction, returns that same item, adds
\* no entry and no object, and resets the item's unused counter to 0.
C8_ResurrectsSameItem ==
    [][\A type \in Types, key \in Keys, period \in Periods, w \in BOOLEAN :
         (Register(type, key, period, w)
             /\ \E e \in SameKey(type, key) : refs[e] = 0)
            => /\ threads' = threads
               /\ alive' = alive
               /\ \E e \in SameKey(type, key) :
                    /\ refs[e] = 0
                    /\ refs'[e] = 1
                    /\ item'[e].unused = 0]_vars

C5_TickBarrier ==
    /\ cpc = "idle" =>
         \A o \in trig \cap alive :
            item[o].wait =>
               /\ item[o].sem_start = 0
               /\ \A i \in 1..Len(item[o].thr) : item[o].thr[i] = "start_wait"
    /\ cpc = "loop" =>
         wait <= Cardinality({o \in trig \cap alive : item[o].wait})

\* run_all_threads has returned, a triggered item with wait = true is done
\* and a triggered item with wait = false is still inside work().
C5_Witness ==
    /\ cpc = "idle"
    /\ \E o \in trig \cap alive :
         item[o].wait /\ item[o].thr = <<"start_wait">> /\ item[o].sem_start = 0
    /\ \E o \in trig \cap alive : ~item[o].wait /\ InWork(o) # {}

\* C6: no two executions of one item's work() overlap.
C6_OneInFlight ==
    \A o \in alive : Cardinality(InWork(o)) <= 1

\* An item is inside work() while a further trigger is already pending.
C6_Witness ==
    \E o \in alive : InWork(o) # {} /\ item[o].sem_start > 0

\* C7 as stated: an item without holders is evicted by exactly the
\* UNUSED_MAX-th run_all_threads call after its last handle was released.
C7_EvictedByFifthCall ==
    \A o \in alive :
        refs[o] = 0 =>
            IF o \in threads THEN calls[o] < UNUSED_MAX
            ELSE calls[o] = UNUSED_MAX

\* C7 amended: unused counts the calls in which the countdown of an item
\* without holders expires; the item is evicted in the call in which that
\* happens for the UNUSED_MAX-th time, which is no earlier than call
\* (UNUSED_MAX-1)*period+1 and no later than call UNUSED_MAX*period after the
\* release.
C7_EvictedByFifthExpiry ==
    \A o \in alive :
        refs[o] = 0 =>
            IF o \in threads
            THEN /\ item[o].unused < UNUSED_MAX
                 /\ calls[o] < UNUSED_MAX * item[o].period
                 /\ item[o].unused > 0 =>
                        calls[o] >= (item[o].unused - 1) * item[o].period + 1
                 /\ calls[o] <= item[o].unused * item[o].period
                                    + (item[o].period - 1 - item[o].remaining)
            ELSE /\ item[o].unused = UNUSED_MAX
                 /\ calls[o] >= (UNUSED_MAX - 1) * item[o].period + 1
                 /\ calls[o] <= UNUSED_MAX * item[o].period

\* An item is being evicted later than the UNUSED_MAX-th call.
C7_Witness ==
    /\ victim # 0
    /\ refs[victim] = 0
    /\ calls[victim] > UNUSED_MAX

\* C9: an item with an external handle stays registered; an object that has
\* left the container has no holder and has used up its grace period.
C9_HeldStaysRegistered ==
    \A o \in alive :
        /\ refs[o] > 0 => o \in threads
        /\ o \notin threads => (refs[o] = 0 /\ item[o].unused = UNUSED_MAX)

\* run_all_threads is evicting an item while an item it has already passed,
\* whose handles were all dropped and which was then registered again, is
\* still registered.
C9_Witness ==
    /\ victim # 0
    /\ \E o \in threads :
         refs[o] > 0 /\ o \in revived /\ o \in visited /\ item[o].thread

\* C10: an item without an external holder at the start of a
\* run_all_threads call is not triggered by that call.
C10_UnheldNotTriggered ==
    cpc = "loop" => \A o \in trig : refs[o] > 0

\* C11: a held item of period p is triggered in the calls number 1, 1+p,
\* 1+2p, ... after its registration and in no other, and its countdown
\* after the calls reads p-1, p-2, ..., 0, p-1, ...  (A merge that lowers the
\* period restarts the count like a registration; any other merge leaves it
\* alone.)
C11_TriggeredEveryPeriod ==
    \A o \in threads :
        refs[o] > 0 =>
            LET p == item[o].period IN
            /\ item[o].remaining = (p - 1) - ((phase[o] + p - 1) % p)
            /\ (cpc = "loop" /\ o \in visited) => (o \in trig <=> phase[o] = 1 % p)

\* A held item of period above 1 that has run before is passed by a call
\* without being triggered.
C11_Witness ==
    /\ cpc = "loop"
    /\ \E o \in threads :
         /\ refs[o] > 0 /\ item[o].period > 1 /\ item[o].thread
         /\ o \in visited \ trig
         /\ item[o].remaining = 0

\* C12 as stated: after a register_thread call that merged its candidate
\* into an existing entry, the remaining countdown of that entry is 0.
C12_MergeResetsRemaining ==
    [][\A type \in Types, key \in Keys, period \in Periods, w \in BOOLEAN :
         (Register(type, key, period, w) /\ alive' = alive /\ ~aborted')
            => \A e \in threads :
                  refs'[e] # refs[e] => item'[e].remaining = 0]_vars

\* C12 amended: the merge sets the remaining countdown to 0 only when the
\* candidate's period is lower than the entry's; otherwise the countdown
\* keeps its value.
C12_MergeResetsWhenLowered ==
    [][\A type \in Types, key \in Keys, period \in Periods, w \in BOOLEAN :
         (Register(type, key, period, w) /\ alive' = alive /\ ~aborted')
            => \A e \in threads :
                  refs'[e] # refs[e] =>
                      item'[e].remaining =
                          IF period < item[e].period THEN 0 ELSE item[e].remaining]_vars

\* An entry that was merged into since the last run_all_threads call
\* returned still has a countdown above 0.
C12_Witness ==
    /\ cpc = "idle"
    /\ \E o \in revived : refs[o] > 0 /\ item[o].remaining > 0

\* C13: a register_thread<T>(p, k) call that repeats the class, key and
\* period of a held entry leaves the set of entries, every object's fields
\* (period, remaining and thread among them) and the set of objects as they
\* were, and returns one more handle to that entry.
C13_RegisterIdempotent ==
    [][\A type \in Types, key \in Keys, period \in Periods, w \in BOOLEAN :
         (Register(type, key, period, w)
             /\ \E e \in SameKey(type, key) :
                   refs[e] > 0 /\ item[e].period = period /\ item[e].wait = w)
            => /\ threads' = threads
               /\ alive' = alive
               /\ item' = item
               /\ \E e \in SameKey(type, key) : refs'[e] = refs[e] + 1]_vars

\* C14: a register_thread<T> call whose wait flag differs from the flag of
\* the registered entry of class T with an equal key fails no assertion; it
\* merges into that entry, which stays the only one and gets no further
\* thread.
C14_MixedWaitMerges ==
    [][\A type \in Types, key \in Keys, period \in Periods, w \in BOOLEAN :
         (Register(type, key, period, w)
             /\ \E e \in SameKey(type, key) : item[e].wait # w)
            => /\ ~aborted'
               /\ threads' = threads
               /\ \A e \in threads : item'[e].thr = item[e].thr]_vars

\* C20: stop() of an x11_output whose thread is inside work() and whose pipe
\* is full of unread bytes completes: the 'X' gets written, the thread is
\* joined and the object destroyed.
C20_StopCompletesOnFullPipe ==
    \A o \in Objs :
        (/\ victim = o
         /\ item[o].thread /\ ~item[o].sentX
         /\ item[o].buf = MaxPipe
         /\ \E i \in 1..Len(item[o].thr) : item[o].thr[i] \in {"work", "read"})
            ~> (victim = 0)

\* C19: with only items of wait = false registered, every run_all_threads
\* call returns, whether or not their work() returns.
C19_RunAllReturns == (cpc = "loop") ~> (cpc = "idle")

\* C18: once run_all_threads goes on after an eviction, and so when it
\* returns, every object it evicted is out of the container and destroyed,
\* and the process holds no thread and no pipe descriptor besides those of
\* the objects that still exist.
C18_EvictedIsGone ==
    (victim = 0 /\ cpc \in {"loop", "idle"}) =>
        /\ \A o \in visited \ threads : o \notin alive
        /\ nthreads = Cardinality({o \in alive : item[o].thread})
        /\ nfds = Cardinality({o \in alive : item[o].pipefd[1]})
                    + Cardinality({o \in alive : item[o].pipefd[2]})

\* run_all_threads has evicted an x11_output whose thread had been started;
\* the object is gone, no thread and no descriptor is left.
C18_Witness ==
    /\ cpc = "loop" /\ victim = 0
    /\ visited \ threads # {}
    /\ trig = {}
    /\ alive = {} /\ nthreads = 0 /\ nfds = 0

\* Runners that are executing a task.
Busy == {i \in PoolIds : pool.run[i] = "tick"}

\* C16: when a run_all_tasks call has returned, every task that was due in
\* it has been executed exactly once, no other task has been executed, and
\* no execution is still going on, for any number of due tasks and runners.
C16_PoolRunsAllOnce ==
    tasks.pc = "idle" =>
        /\ \A t \in TaskIds : tasks.execd[t] = (IF t \in tasks.due THEN 1 ELSE 0)
        /\ Busy = {}
        /\ pool.queue = <<>>

\* A call with more due tasks than the pool has runners has returned.
C16_Witness ==
    /\ tasks.pc = "idle"
    /\ pool.size = 1
    /\ Cardinality(tasks.due) = MaxTasks
    /\ \A t \in tasks.due : tasks.execd[t] = 1

\* C17: to_wait is the number of tasks submitted in the call less the
\* number accounted for by wait(); it never wraps; outside run_all_tasks,
\* that is once wait() has returned, it is 0, the queue is empty, no runner
\* is executing and the semaphore is at 0.
C17_ToWaitCountsPending ==
    /\ pool.to_wait = Cardinality(tasks.due \ tasks.todo) - tasks.acct
    /\ pool.to_wait <= MaxTasks
    /\ tasks.pc = "idle" =>
           /\ pool.to_wait = 0
           /\ pool.queue = <<>>
           /\ Busy = {}
           /\ pool.sem = 0

\* wait() has returned after accounting for every task of a full call.
C17_Witness ==
    /\ tasks.pc = "idle"
    /\ tasks.acct = MaxTasks
    /\ pool.to_wait = 0

\* C15: once the container has been destroyed and every handle released,
\* no object is left, every thread that was started (workers and pool
\* runners) has been joined and every pipe descriptor that was opened has
\* been closed, whatever was registered, triggered or released before.
C15_CleanShutdown ==
    (Gone /\ \A o \in Objs : refs[o] = 0) =>
        /\ alive = {}
        /\ nthreads = 0
        /\ nfds = 0
        /\ \A i \in PoolIds : pool.run[i] \in {"none", "exited"}

\* A container whose pool had runners and whose item had been triggered, so
\* had a thread, has been destroyed with all handles, and nothing is left.
C15_Witness ==
    /\ Gone /\ \A o \in Objs : refs[o] = 0
    /\ pool.done
    /\ \E o \in trig : revived = {} /\ calls[o] = 0
    /\ alive = {} /\ nthreads = 0 /\ nfds = 0

\* The waits on sem_wait the coordinator has performed in the current call.
Waited == Cardinality({o \in trig \cap alive : item[o].wait}) - wait

\* C22: within one call, once the coordinator has performed its first wait
\* on the completion semaphore (or on the pool's semaphore), the loop has
\* passed every handle (every due task has been submitted): no trigger of
\* the call comes after a wait of the call.
C22_TriggersBeforeWaits ==
    /\ (cpc = "loop" /\ Waited > 0) => threads \subseteq visited
    /\ (cpc = "loop" /\ ~(threads \subseteq visited)) =>
           wait = Cardinality({o \in trig \cap alive : item[o].wait})
    /\ (tasks.pc = "loop" /\ tasks.acct > 0) => tasks.todo = {}

\* Two items with wait = true were triggered by the call; the coordinator
\* has waited for the one that is done while the other is still in work().
C22_Witness ==
    /\ cpc = "loop" /\ Waited = 1
    /\ \E a \in trig, b \in trig :
         /\ a # b /\ item[a].wait /\ item[b].wait
         /\ item[a].thr = <<"start_wait">>
         /\ item[b].thr = <<"work">>

\* C21: if every work() eventually returns, then under fair scheduling every
\* run_all_threads call that has begun eventually returns.
C21_RunAllTerminates ==
    [](cpc = "loop" => <>(cpc = "idle"))

\* Items with wait = true triggered by the current call whose worker has
\* not yet posted sem_wait for that trigger.
Unposted ==
    {o \in trig \cap alive :
        /\ item[o].wait
        /\ \/ item[o].sem_start > 0
           \/ \E i \in 1..Len(item[o].thr) : item[o].thr[i] \in {"drain", "work"}}

\* C27: whenever no run_all_threads call is executing, sem_wait is 0; inside
\* a call, the posts made and not yet waited for, plus the posts still to
\* come from the items the call triggered, are exactly the waits the
\* coordinator still has to perform.
C27_SemWaitBalanced ==
    /\ cpc # "loop" => sem_wait = 0
    /\ cpc = "loop" => sem_wait + Cardinality(Unposted) = wait

\* Inside a call: the item with wait = true has posted, the coordinator has
\* not yet waited, and an item with wait = false is still inside work().
C27_Witness ==
    /\ cpc = "loop" /\ sem_wait = 1 /\ wait = 1
    /\ \E o \in trig \cap alive : ~item[o].wait /\ InWork(o) # {}

\* C26: the worker of an item with wait = true is woken by exactly one start
\* signal and finds none to drain: while it is between sem_start.wait() and
\* the end of work() the semaphore is at 0, the count never exceeds 1, and
\* outside run_all_threads the worker is idle with no signal pending.
C26_NoCoalescingWhenWaiting ==
    \A o \in alive :
        item[o].wait =>
            /\ item[o].sem_start <= 1
            /\ \A i \in 1..Len(item[o].thr) :
                  /\ item[o].thr[i] \in {"drain", "work"} =>
                        (item[o].sem_start = 0 /\ cpc = "loop" /\ o \in trig)
                  /\ (item[o].sem_start > 0 /\ ~item[o].done) =>
                        (item[o].thr[i] = "start_wait" /\ cpc = "loop" /\ o \in trig)

\* The worker of an item with wait = true is about to drain and has nothing
\* to drain, while the worker of an item with wait = false is about to
\* swallow a trigger that arrived after it woke up.
C26_Witness ==
    /\ \E a \in alive :
         item[a].wait /\ item[a].thr = <<"drain">> /\ item[a].sem_start = 0
    /\ \E b \in alive :
         ~item[b].wait /\ item[b].thr = <<"drain">> /\ item[b].sem_start = 1
            /\ ~item[b].done

\* C25: a worker that has woken up with the termination flag clear takes all
\* pending start signals and executes work() once: when work() begins the
\* semaphore is at 0, no other execution of the item is going on, and run()
\* was called for the item at least once since its previous execution
\* began.  So every execution answers at least one trigger of its own, and
\* the executions of an item never outnumber its triggers.
C25_Coalescing ==
    [][\A o \in Objs : \A i \in 1..Len(item[o].thr) :
          (o \in alive /\ item[o].thr[i] = "drain" /\ item'[o].thr[i] = "work")
             => /\ item[o].owed >= 1
                /\ item'[o].sem_start = 0
                /\ item'[o].owed = 0
                /\ InWork(o) = {}]_vars

\* A worker has woken up for one trigger and a second one has arrived
\* before it drained the semaphore: work() is about to begin once for both.
C25_Witness ==
    \E o \in alive :
        /\ item[o].thr = <<"drain">>
        /\ ~item[o].done
        /\ item[o].sem_start = 1
        /\ item[o].owed = 2

\* C28: an object has a thread only once it has been triggered, and never
\* more than one in its life: a thread is started only by the step of
\* run_all_threads that triggers an object that has none, never by a
\* registration, a merge, a copy or a release; thr, which keeps every
\* thread started for the object until the object is destroyed, never has
\* more than one entry.
C28_LazySingleThread ==
    [][\A o \in Objs :
          /\ Len(item'[o].thr) <= 1
          /\ item'[o].thread <=> item'[o].thr # <<>>
          /\ Len(item'[o].thr) > Len(item[o].thr) =>
                /\ cpc = "loop"
                /\ o \in trig' /\ o \in visited' \ visited
                /\ ~item[o].thread
          /\ (o \in alive' \ alive) => item'[o].thr = <<>>]_vars

\* An item that had lost its holders, was passed by a call and was then
\* registered again is triggered once more, and has its one thread.
C28_Witness ==
    /\ cpc = "loop"
    /\ \E o \in revived \cap trig :
         /\ Len(item[o].thr) = 1
         /\ item[o].thread
         /\ nthreads = Cardinality({x \in alive : item[x].thread})

\* C29: when a stop() call returns, the object has no thread and no open
\* descriptor, the call has joined at most one thread and closed each
\* descriptor that was open; a stop() call on an object in that state
\* joins nothing, closes nothing and leaves the object as it was.
C29_StopIdempotent ==
    [][(victim # 0 /\ victim' = 0) =>
          LET v == victim IN
          /\ nthreads - nthreads' = (IF item[v].thread THEN 1 ELSE 0)
          /\ nfds - nfds' = open_fds(item[v])
          /\ v \in alive' =>
                /\ ~item'[v].thread
                /\ open_fds(item'[v]) = 0
                /\ (~item[v].thread /\ open_fds(item[v]) = 0) =>
                      /\ nthreads' = nthreads /\ nfds' = nfds
                      /\ [item'[v] EXCEPT !.stops = 0] = [item[v] EXCEPT !.stops = 0]]_vars

\* Two stop() calls have returned that found the x11_output already
\* stopped, after a stop() call that joined its thread and one that closed
\* its pipe: no thread and no descriptor is left.
C29_Witness ==
    \E o \in alive :
        /\ victim = 0
        /\ item[o].type \in Piped
        /\ item[o].stops = 2
        /\ item[o].done
        /\ ~item[o].thread /\ open_fds(item[o]) = 0
        /\ nthreads = 0 /\ nfds = 0

\* The candidates register_thread can construct.
Candidates ==
    {thread_base(type, key, get_hash(type, key, this), period, w, type \in Piped) :
        type \in Types \cup Outputs, key \in Keys, this \in Objs,
        period \in Periods, w \in BOOLEAN}

\* C30: a register_thread call that merges leaves the set of objects, the
\* threads and the open descriptors of the process as they were, triggers
\* nothing and posts nothing; a candidate has no thread, so its stop()
\* joins nothing and writes nothing, and closes the descriptors it opened.
C30_DiscardedCandidateInert ==
    [][/\ \A h \in Candidates :
             /\ ~h.thread /\ h.thr = <<>>
             /\ stop_joins(h) = 0
             /\ stop_post(h) = h
             /\ stop_close(h) = open_fds(h)
             /\ open_fds(stop(h)) = 0
       /\ \A type \in Types, key \in Keys, period \in Periods, w \in BOOLEAN :
             (Register(type, key, period, w) /\ threads' = threads /\ ~aborted')
                => /\ alive' = alive
                   /\ nthreads' = nthreads
                   /\ nfds' = nfds
                   /\ sem_wait' = sem_wait
                   /\ \A o \in Objs :
                         /\ item'[o].thread = item[o].thread
                         /\ item'[o].thr = item[o].thr
                         /\ item'[o].sem_start = item[o].sem_start
                         /\ item'[o].owed = item[o].owed
                         /\ item'[o].buf = item[o].buf]_vars

\* A candidate has just been merged into an item that had lost its holders
\* and whose thread is inside work(): there is still one object and one
\* thread, and the caller holds the old item.
C30_Witness ==
    \E o \in threads \cap revived :
        /\ refs[o] = 1
        /\ item[o].thr = <<"work">>
        /\ alive = {o}
        /\ nthreads = 1
        /\ cpc = "idle"

\* C23: while a run_all_threads call is walking the set, register_thread
\* does not get at it: from one step of the walk to the next no handle has
\* been inserted, and no entry has been merged into or handed out.
C23_RegistryLocked ==
    [][(cpc = "loop" /\ cpc' = "loop") =>
          /\ threads' \subseteq threads
          /\ \A o \in threads : refs'[o] = refs[o]
          /\ \A o \in threads :
                \/ /\ item'[o].period = item[o].period
                   /\ item'[o].remaining = item[o].remaining
                   /\ item'[o].unused = item[o].unused
                \/ o \in visited' \ visited]_vars

C31_NoUseAfterClose ==
    [][\A o \in Objs :
          /\ open_fds(item'[o]) < open_fds(item[o]) =>
                /\ open_fds(item'[o]) = 0
                /\ victim = o
                /\ item[o].thread =>
                      /\ item[o].sentX
                      /\ \A i \in 1..Len(item[o].thr) : item[o].thr[i] = "exited"
                /\ ~item'[o].thread
          /\ (item'[o].buf > item[o].buf /\ item'[o].sentX = item[o].sentX) =>
                /\ item[o].pipefd[2]
                /\ ~item[o].done
                /\ victim # o
          /\ \A i \in 1..Len(item'[o].thr) :
                (item'[o].type \in EventLoop /\ item'[o].thr[i] \in {"work", "read"})
                   => item'[o].pipefd[1]]_vars

\* The destructor of the container is inside stop() of an x11_output: the
\* 'X' is in the pipe, the thread has left start_routine, and the two
\* descriptors are about to be closed.
C31_Witness ==
    \E o \in alive :
        /\ victim = o /\ cpc = "dtor"
        /\ item[o].type \in Piped
        /\ item[o].sentX /\ item[o].buf > 0
        /\ item[o].thr = <<"exited">>
        /\ item[o].pipefd = <<TRUE, TRUE>>

\* C32: for items registered with a period of at least 1: between calls
\* every entry of the container has remaining < period and unused <
\* UNUSED_MAX; unused never exceeds UNUSED_MAX; an object whose unused is
\* UNUSED_MAX is out of the container, inside the call that counted it
\* there, on its way to destruction; and no entry of the container ever
\* shows the wrapped countdown.
C32_CountersInRange ==
    /\ cpc = "idle" =>
          \A o \in threads :
             /\ item[o].period >= 1
             /\ item[o].remaining < item[o].period
             /\ item[o].unused < UNUSED_MAX
    /\ \A o \in alive :
          /\ item[o].unused <= UNUSED_MAX
          /\ item[o].unused = UNUSED_MAX =>
                (o \notin threads /\ cpc = "loop" /\ victim = o /\ refs[o] = 0)
    /\ \A o \in threads :
          item[o].remaining # UINT32_MAX /\ item[o].remaining < item[o].period

\* A call has returned that evicted one item, which is gone, and left
\* another, of period MaxPeriod, one pass short of eviction with its
\* countdown reloaded.
C32_Witness ==
    /\ cpc = "idle" /\ victim = 0
    /\ visited \ threads # {}
    /\ visited \cap alive = threads
    /\ \E o \in threads :
         /\ item[o].unused = UNUSED_MAX - 1
         /\ item[o].period = MaxPeriod
         /\ item[o].remaining = MaxPeriod - 1

\* C33: the step of run_all_threads that erases a handle does not trigger
\* its item and adds no wait for it; inside a call, no item that the call
\* has triggered is out of the container or inside stop(), so every wait the
\* coordinator still has to perform is for an item that is registered.
C33_TriggeredNotEvicted ==
    [][/\ \A o \in threads \ threads' :
             cpc = "loop" =>
                /\ o \notin trig'
                /\ wait' = wait
                /\ item'[o].sem_start = item[o].sem_start + stop_joins(item[o])
                /\ item'[o].owed = item[o].owed
       /\ cpc' = "loop" =>
             /\ trig' \cap alive' \subseteq threads'
             /\ victim' \notin trig'
             /\ wait' <= Cardinality({o \in trig' \cap threads' : item'[o].wait})]_vars

\* Inside one call: an item with a thread has been erased and is inside
\* stop(), untriggered, while another item was triggered and is waited for.
C33_Witness ==
    /\ cpc = "loop" /\ victim # 0
    /\ victim \notin trig /\ victim \in visited \ threads
    /\ item[victim].thread
    /\ wait = 1
    /\ \E o \in trig \cap threads : item[o].wait /\ item[o].thr = <<"work">>

\* C34: run() never blocks the coordinating thread on the pipe: whenever the
\* loop of run_all_threads is at an item that is due and has a pipe, the
\* write of the 'T' can return at once, because the write end is in
\* non-blocking mode or the pipe has room.
C34_TriggerNeverBlocks ==
    \A o \in threads \ visited :
        (/\ cpc = "loop" /\ victim = 0
         /\ item[o].pipefd[2]
         /\ tick(item[o], refs[o] = 0).ran)
            => (item[o].nonblock \/ item[o].buf < MaxPipe)

\* C35: every byte in a pipe is 'T' or 'X'; an 'X' is the last byte of its
\* pipe; a byte is written only to an open write end that has not had its
\* 'X' yet, which is not forgotten before the pipe is closed, and a closed
\* pipe is not opened again, so an item gets at most one 'X' and no 'T'
\* after it; and every get_signal() call returns NEXT or DONE.
C35_OnlyTAndX ==
    [][\A o \in Objs :
          LET old == item[o].pipe
              new == item'[o].pipe
          IN  /\ \A i \in 1..Len(new) :
                    /\ new[i] \in {"T", "X"}
                    /\ new[i] = "X" => i = Len(new)
              /\ Len(new) = item'[o].buf
              /\ Len(new) > Len(old) =>
                    /\ item[o].pipefd[2]
                    /\ ~item[o].sentX
                    /\ item'[o].sentX <=> new[Len(new)] = "X"
              /\ (item[o].sentX /\ ~item'[o].sentX) => ~item'[o].pipefd[2]
              /\ (o \in alive /\ o \in alive' /\ item'[o].pipefd[2]) => item[o].pipefd[2]
              /\ item'[o].sig # "logic_error"
              /\ (Len(new) < Len(old) /\ item'[o].pipefd[1]) =>
                    item'[o].sig = get_signal(Head(old))]_vars

\* stop() has written its 'X' behind a 'T' that the thread of the
\* x11_output has not read, after a get_signal() call that returned NEXT.
C35_Witness ==
    \E o \in alive :
        /\ victim = o
        /\ item[o].pipe = <<"T", "X">>
        /\ item[o].sig = "NEXT"

C37_ProtocolWorkerTerminates ==
    \A o \in Objs :
        (o \in alive /\ item[o].type = "thread_task" /\ item[o].done /\ victim # o)
            ~> (item[o].thr = <<"exited">>)

\* stop() has returned for two tasks: the worker of one is blocked in wait()
\* with the signal of stop() pending, the other is still working and has a
\* tick and the signal of stop() pending.
C37_Witness ==
    /\ victim = 0
    /\ \E a \in alive, b \in alive :
         /\ item[a].type = "thread_task" /\ item[b].type = "thread_task"
         /\ item[a].done /\ item[a].thr = <<"wait">> /\ item[a].sem_start = 1
         /\ item[b].done /\ item[b].thr = <<"work">> /\ item[b].sem_start = 2

\* C38: whenever an x11_output has released its display connection and the
\* objects made on it, none of its threads is inside work() or past the test
\* of done on its way into work(): no step of work() comes with or after the
\* release.
C38_JoinedBeforeRelease ==
    \A o \in alive :
        (item[o].type \in EventLoop /\ ~item[o].display) =>
            \A i \in 1..Len(item[o].thr) :
                item[o].thr[i] \notin {"drain", "work", "read"}

\* C39: after any sequence of insert, operator[] and find calls the keys of
\* the elements are strictly increasing; an insert of a key given before
\* returns false and leaves the list, data included, as it was, an insert of
\* a new key returns true and the position of the new element; operator[]
\* gives the element of its key, made with Data() if the key is new; and
\* find(k) gives an element with key k exactly if k was given to insert or
\* operator[] before, end() otherwise.
C39_UniqueSortedMap ==
    LET l == list_map.list
        c == list_map.call
    IN  /\ \A i \in 1..(Len(l) - 1) : l[i].first < l[i + 1].first
        /\ {l[i].first : i \in 1..Len(l)} = list_map.keys
        /\ (c.op = "insert" /\ c.had) => (~c.inserted /\ l = c.before)
        /\ (c.op = "insert" /\ ~c.had) =>
              (c.inserted /\ l[c.it] = [first |-> c.key, second |-> c.data])
        /\ c.op \in {"insert", "subscript"} =>
              /\ c.it \in 1..Len(l) /\ l[c.it].first = c.key
              /\ \A i \in 1..Len(c.before) : \E j \in 1..Len(l) : l[j] = c.before[i]
        /\ (c.op = "subscript" /\ ~c.had) => l[c.it].second = data_type
        /\ c.op = "find" =>
              IF c.had THEN c.it \in 1..Len(l) /\ l[c.it].first = c.key
                       ELSE c.it = end(l)
        /\ \A k \in MapKeys :
              IF k \in list_map.keys
              THEN find(l, k, 0) \in 1..Len(l) /\ l[find(l, k, 0)].first = k
              ELSE find(l, k, 0) = end(l)

\* Every key is in the map, and the latest call was an insert of a key with
\* data other than the data stored for it, in the middle of the list.
C39_Witness ==
    /\ Len(list_map.list) = MaxKey + 1
    /\ list_map.call.op = "insert"
    /\ list_map.call.had
    /\ list_map.call.it \in 2..MaxKey
    /\ list_map.list[list_map.call.it].second # list_map.call.data

====
